---- MODULE Spec2Model ----
(***************************************************************************)
(* Model of the soltoolkit-sdk endpoint-selection and submission core:     *)
(*   - TransactionWrapper.sendAndConfirm (modules/TransactionWrapper.ts)   *)
(*   - ConnectionManager (modules/ConnectionManager.ts)                    *)
(* Every await of the source is a suspension point: the code between two   *)
(* awaits is one atomic action, and the settlement of the awaited call is  *)
(* an input of the action that resumes the caller.                         *)
(***************************************************************************)
EXTENDS Integers, Sequences, FiniteSets, TLC

(***************************************************************************)
(* Bounds                                                                  *)
(***************************************************************************)
MaxRetries == 3
MaxPending == 2
MaxLatency == 2
MaxTrace == 4
MaxConnections == 2

\* operations made on one TransactionBuilder
MaxOps == 4

\* transactions handed to one TransactionWrapper
MaxTransactions == 2

None == "none"

(***************************************************************************)
(* TransactionWrapper.sendAndConfirm                                       *)
(***************************************************************************)

\* Error messages are sequences of fragments; String.prototype.includes is
\* modelled by fragment membership.
RpcFailure == "RPC failure"

Includes(msg, fragment) == \E i \in 1..Len(msg) : msg[i] = fragment

\* Messages carried by errors that the web3.js transport raises.  The text
\* is chosen by the RPC node / the library, not by the wrapper.
TransportMessages == { <<"socket hang up">>,
                       <<"failed to send transaction: ", RpcFailure>> }

\* Non-null error payloads of a confirmation result.
LedgerErrs == { "InstructionError" }

\* throw new Error(`RPC failure: ${JSON.stringify(result.value.err)}`)
RejectionMessage(err) == <<RpcFailure, ": ", err>>

\* this._logger.makeError(`Transaction failed after ${tries} tries`)
ExhaustedMessage(n) == <<"Transaction failed after ", ToString(n), " tries">>

\* What the ledger client does on one attempt (one loop iteration).
Outcomes ==
    [kind : {"sendThrows", "blockhashThrows", "confirmThrows"}, msg : TransportMessages, err : {None}]
    \cup [kind : {"rejected"}, msg : {<<>>}, err : LedgerErrs]
    \cup [kind : {"confirmed"}, msg : {<<>>}, err : {None}]

IsTransport(o) == o.kind \in {"sendThrows", "blockhashThrows", "confirmThrows"}

Scripts(n) == [1..n -> Outcomes]

NoResult == [kind |-> None, sig |-> 0, msg |-> <<>>]

VARIABLES
    txPc,                   \* position inside sendAndConfirm
    maximumRetries,         \* argument of the call
    script,                 \* what the ledger client will answer, per attempt
    tries,                  \* var tries
    signature,              \* var signature (0 = undefined)
    isTransactionConfirmed, \* var isTransactionConfirmed
    warnings,               \* number of logger.warn('Transaction failed, retrying...')
    sendCalls,              \* number of sendTx calls issued
    confirmCalls,           \* number of confirmTx calls issued
    confirmedSigs,          \* signatures the ledger reported confirmed with err = null
    txResult                \* how the call ended

txVars == <<txPc, maximumRetries, script, tries, signature, isTransactionConfirmed,
            warnings, sendCalls, confirmCalls, confirmedSigs, txResult>>

VARIABLES
    instance,               \* ConnectionManager._instance: 0 = unset, else the n-th object constructed
    constructed,            \* number of ConnectionManager objects constructed so far
    config,                 \* _config of the object held in _instance
    connection,             \* _connection.rpcEndpoint of that object
    fastestEndpoint,        \* _fastestEndpoint
    highestSlotEndpoint,    \* _highestSlotEndpoint
    latestValidBlockHeightEndpoint, \* _latestValidBlockHeightEndpoint
    rpcSummary,             \* _rpcSummary
    pending,                \* async calls suspended in their probe round
    rrRun,                  \* round-robin: bound endpoint at the start of the current run of rotations, and the positions picked since
    ret                     \* what the step just taken returned or raised

cmVars == <<instance, constructed, config, connection, fastestEndpoint, highestSlotEndpoint,
            latestValidBlockHeightEndpoint, rpcSummary, pending, rrRun, ret>>

VARIABLES
    swPc,                   \* position inside SingleTransactionWrapper.send
    swArgs,                 \* the wrapper's fields and the arguments of the call
    swTransaction,          \* this._transaction
    swSends,                \* per connection, the number of send requests it received
    swTasks,                \* per callback of the submit step, the state of its send
    swSignatures,           \* let signatures: string[]
    swRace,                 \* the promise returned by Promise.race
    swChecks,               \* confirmation polls issued: <<connection, signature>>
    swChecked,              \* confirmation polls that completed
    swResult,               \* how send ended
    signState               \* TransactionWrapper.sign: position and result

swVars == <<swPc, swArgs, swTransaction, swSends, swTasks, swSignatures, swRace,
            swChecks, swChecked, swResult, signState>>

VARIABLES
    arrays,                 \* heap of instruction arrays: arrays[a] is the content of array a
    txs,                    \* heap of Transaction objects: the array each one's instructions refers to
    bTransaction,           \* TransactionBuilder._transaction, a reference into txs
    bInstructions,          \* TransactionBuilder._instructions, a reference into arrays
    built,                  \* the transactions build returned, with their list at that moment
    bOps,                   \* number of builder operations called
    bLast,                  \* the builder operation just completed
    bPc,                    \* position inside addCreateTokenAccountIx
    helper                  \* TransactionHelper.createTokenAccountIx: position and result

tbVars == <<arrays, txs, bTransaction, bInstructions, built, bOps, bLast, bPc, helper>>

VARIABLES
    stPc,                   \* position inside TransactionWrapper.create / addBlockhashAndFeePayer
    stTransactions,         \* this._transactions
    stCreated,              \* the transactions as they were handed to create
    stFeePayer,             \* this._feePayer
    stSigner,               \* the fee payer the caller named at creation
    stOverride,             \* the argument feePayer of addBlockhashAndFeePayer
    stNetworkCalls,         \* requests made to the connection
    stResult                \* how addBlockhashAndFeePayer ended

stVars == <<stPc, stTransactions, stCreated, stFeePayer, stSigner, stOverride,
            stNetworkCalls, stResult>>

VARIABLES
    commitments             \* the commitment level held or passed, per place it is used

vars == <<txVars, cmVars, swVars, tbVars, stVars, commitments>>

(***************************************************************************)
(* Commitment levels                                                       *)
(***************************************************************************)

\* values of Commitment the callers pass; "undefined" is the argument left out
Commitment == {"processed", "max"}

OptionalCommitment == Commitment \cup {"undefined"}

\* commitment = 'max' (part_004, lines 59 and 170); confirmationCommitment || 'max'
CommitmentOrMax(c) == IF c = "undefined" THEN "max" ELSE c

\* a request made without a commitment argument is answered at the level
\* the Connection was constructed with, and at the node's default,
\* finalized, when it was constructed with none
ConnectionCommitment(c) == IF c = "undefined" THEN "finalized" ELSE c

\* 'max' is the older name of 'finalized'
Level(c) == IF c = "max" THEN "finalized" ELSE c

NoCommitments ==
    [connection |-> None,      \* TransactionWrapper._connection's own level
     stamp |-> None,           \* level of the fetch of addBlockhashAndFeePayer
     argument |-> None,        \* commitment of sendAndConfirm
     poll |-> None,            \* level passed to confirmTransaction by confirmTx
     swFetch |-> None,         \* level of the fetch of SingleTransactionWrapper.send
     swPoll |-> None]          \* level passed to confirmTransaction by send

CommitmentInit == commitments = NoCommitments

TxInit ==
    /\ txPc = "idle"
    /\ maximumRetries = 0
    /\ script = <<>>
    /\ tries = 0
    /\ signature = 0
    /\ isTransactionConfirmed = FALSE
    /\ warnings = 0
    /\ sendCalls = 0
    /\ confirmCalls = 0
    /\ confirmedSigs = {}
    /\ txResult = NoResult

\* The outcome of the attempt in progress.
CurrentOutcome == script[sendCalls]

\* while (tries < maximumRetries && !isTransactionConfirmed) { sendTx ... }
\* followed, when the loop is left, by lines 92-96.
LoopHeadMutOffByOne(m, t, sig, conf) ==
    /\ tries' = t
    /\ signature' = sig
    /\ isTransactionConfirmed' = conf
    /\ IF t <= m /\ ~conf
         THEN /\ txPc' = "sendTx"
              /\ sendCalls' = sendCalls + 1
              /\ txResult' = NoResult
         ELSE /\ txPc' = "done"
              /\ sendCalls' = sendCalls
              /\ txResult' = IF sig = 0 \/ ~conf
                               THEN [kind |-> "thrown", sig |-> 0, msg |-> ExhaustedMessage(t)]
                               ELSE [kind |-> "returned", sig |-> sig, msg |-> <<>>]

LoopHead(m, t, sig, conf) ==
    /\ tries' = t
    /\ signature' = sig
    /\ isTransactionConfirmed' = conf
    /\ IF t < m /\ ~conf
         THEN /\ txPc' = "sendTx"
              /\ sendCalls' = sendCalls + 1
              /\ txResult' = NoResult
         ELSE /\ txPc' = "done"
              /\ sendCalls' = sendCalls
              /\ txResult' = IF sig = 0 \/ ~conf
                               THEN [kind |-> "thrown", sig |-> 0, msg |-> ExhaustedMessage(t)]
                               ELSE [kind |-> "returned", sig |-> sig, msg |-> <<>>]

\* catch (e) { if (e.message.includes('RPC failure')) throw e; else { warn; tries++ } }
CatchMutRetryAll(msg, sig) ==
    /\ warnings' = warnings + 1
    /\ LoopHead(maximumRetries, tries + 1, sig, isTransactionConfirmed)

Catch(msg, sig) ==
    IF Includes(msg, RpcFailure)
      THEN /\ txPc' = "done"
           /\ txResult' = [kind |-> "thrown", sig |-> 0, msg |-> msg]
           /\ signature' = sig
           /\ UNCHANGED <<tries, isTransactionConfirmed, warnings, sendCalls>>
      ELSE /\ warnings' = warnings + 1
           /\ LoopHead(maximumRetries, tries + 1, sig, isTransactionConfirmed)

\* sendAndConfirm({serialisedTx, maximumRetries, commitment}) up to its
\* first await
SendAndConfirm(m, s, commitment) ==
    /\ txPc = "idle"
    /\ UNCHANGED <<cmVars, swVars, tbVars, stVars>>
    /\ commitments' = [commitments EXCEPT !.argument = CommitmentOrMax(commitment)]
    /\ maximumRetries' = m
    /\ script' = s
    /\ LoopHead(m, 0, 0, FALSE)
    /\ UNCHANGED <<warnings, confirmCalls, confirmedSigs>>

\* signature = await this.sendTx(...) settles; on success confirmTx is entered
\* and awaits getLatestBlockhash
SendTxSettles ==
    /\ UNCHANGED <<cmVars, swVars, tbVars, stVars, commitments>>
    /\ txPc = "sendTx"
    /\ IF CurrentOutcome.kind = "sendThrows"
         THEN /\ Catch(CurrentOutcome.msg, signature)
              /\ UNCHANGED confirmCalls
         ELSE /\ signature' = sendCalls
              /\ txPc' = "getLatestBlockhash"
              /\ confirmCalls' = confirmCalls + 1
              /\ UNCHANGED <<tries, isTransactionConfirmed, warnings, sendCalls, txResult>>
    /\ UNCHANGED <<maximumRetries, script, confirmedSigs>>

\* confirmTx: await this._connection.getLatestBlockhash(commitment) settles,
\* then confirmTransaction(..., commitment) is awaited
GetLatestBlockhashSettles ==
    /\ UNCHANGED <<cmVars, swVars, tbVars, stVars>>
    /\ txPc = "getLatestBlockhash"
    /\ IF CurrentOutcome.kind = "blockhashThrows"
         THEN /\ Catch(CurrentOutcome.msg, signature)
              /\ UNCHANGED commitments
         ELSE /\ txPc' = "confirmTransaction"
              /\ commitments' = [commitments EXCEPT !.poll = commitments.argument]
              /\ UNCHANGED <<tries, signature, isTransactionConfirmed, warnings, sendCalls, txResult>>
    /\ UNCHANGED <<maximumRetries, script, confirmCalls, confirmedSigs>>

\* confirmTx: await this._connection.confirmTransaction(...) settles, then
\* lines 77-81
ConfirmTransactionSettles ==
    /\ UNCHANGED <<cmVars, swVars, tbVars, stVars, commitments>>
    /\ txPc = "confirmTransaction"
    /\ CASE CurrentOutcome.kind = "confirmThrows" ->
              /\ Catch(CurrentOutcome.msg, signature)
              /\ UNCHANGED confirmedSigs
         [] CurrentOutcome.kind = "rejected" ->
              /\ Catch(RejectionMessage(CurrentOutcome.err), signature)
              /\ UNCHANGED confirmedSigs
         [] OTHER ->
              /\ confirmedSigs' = confirmedSigs \cup {signature}
              /\ LoopHead(maximumRetries, tries, signature, TRUE)
              /\ UNCHANGED warnings
    /\ UNCHANGED <<maximumRetries, script, confirmCalls>>

TxNext ==
    \/ /\ txPc = "idle"
       /\ \E m \in 0..MaxRetries : \E s \in Scripts(m) :
            \E commitment \in OptionalCommitment : SendAndConfirm(m, s, commitment)
    \/ SendTxSettles
    \/ GetLatestBlockhashSettles
    \/ ConfirmTransactionSettles

(***************************************************************************)
(* ConnectionManager: values and pure helpers                              *)
(***************************************************************************)

Modes == {"single", "first", "last", "round-robin", "random",
          "fastest", "highest-slot", "latest-valid-block-height"}

RankedModes == {"fastest", "highest-slot", "latest-valid-block-height"}

\* static getDefaultEndpoint(network); None stands for `throw Invalid network`
GetDefaultEndpoint(network) ==
    CASE network = "mainnet-beta" -> "https://api.mainnet-beta.solana.com"
      [] network = "testnet" -> "https://api.testnet.solana.com"
      [] network = "devnet" -> "https://api.devnet.solana.com"
      [] network = "localnet" -> "http://localhost:8899"
      [] OTHER -> None

\* arr[i] of JavaScript, 0-based; None stands for undefined
ElementAt(arr, i) == IF i >= 0 /\ i < Len(arr) THEN arr[i + 1] ELSE None

\* Array.prototype.indexOf, 0-based, -1 when absent
IndexOf(arr, x) ==
    IF \E i \in 1..Len(arr) : arr[i] = x
      THEN (CHOOSE i \in 1..Len(arr) : arr[i] = x /\ \A j \in 1..(i - 1) : arr[j] # x) - 1
      ELSE -1

\* What one probe (getLatestBlockhashAndContext on a fresh Connection) yields.
UnreachableOutcome ==
    [isReachable |-> FALSE, speedMs |-> 0, currentSlot |-> 0, lastValidBlockHeight |-> 0]

Slots == {1, 2}

BlockHeights == {1, 2}

ProbeOutcomes ==
    {UnreachableOutcome}
    \cup [isReachable : {TRUE}, speedMs : 1..MaxLatency, currentSlot : Slots,
          lastValidBlockHeight : BlockHeights]

\* Probes whose answer differs in reachability only.
\* A probe whose call raised after MaxLatency ms: the clock was started (line
\* 545) but the catch block never reads it.
TimedOutOutcome ==
    [isReachable |-> FALSE, speedMs |-> MaxLatency, currentSlot |-> 0,
     lastValidBlockHeight |-> 0]

ReachabilityOutcomes ==
    {UnreachableOutcome, TimedOutOutcome,
     [isReachable |-> TRUE, speedMs |-> 1, currentSlot |-> 1, lastValidBlockHeight |-> 1]}

\* The body of the map callback (lines 542-565): answer.isReachable tells
\* whether getLatestBlockhashAndContext resolved; the try branch copies the
\* elapsed time, context.slot and value.lastValidBlockHeight, the catch branch
\* returns the three numeric fields undefined (0 stands for undefined).
ProbeRecordMutKeepsElapsed(endpoint, answer) ==
    [endpoint |-> endpoint,
     isReachable |-> answer.isReachable,
     speedMs |-> answer.speedMs,
     currentSlot |-> answer.currentSlot,
     lastValidBlockHeight |-> answer.lastValidBlockHeight]

ProbeRecord(endpoint, answer) ==
    IF answer.isReachable
      THEN [endpoint |-> endpoint,
            speedMs |-> answer.speedMs,
            currentSlot |-> answer.currentSlot,
            isReachable |-> TRUE,
            lastValidBlockHeight |-> answer.lastValidBlockHeight]
      ELSE [endpoint |-> endpoint,
            speedMs |-> 0,
            currentSlot |-> 0,
            isReachable |-> FALSE,
            lastValidBlockHeight |-> 0]

\* static getEndpointsSummary(endpoints): one IRPCSummary per endpoint, in
\* input order (Promise.all keeps the order of the map)
EndpointsSummary(endpoints, o) ==
    [i \in 1..Len(endpoints) |-> ProbeRecord(endpoints[i], o[i])]

IsReachable(e) == e.isReachable = TRUE

\* summary.every((endpoint) => endpoint.isReachable === false)
EveryUnreachable(summary) == \A i \in 1..Len(summary) : summary[i].isReachable = FALSE

\* Array.prototype.sort((a, b) => sign * (a[field] - b[field])): a stable sort
RECURSIVE InsertSorted(_, _, _, _)
InsertSorted(sorted, x, field, sign) ==
    IF sorted = <<>>
      THEN <<x>>
      ELSE IF sign * (x[field] - Head(sorted)[field]) < 0
             THEN <<x>> \o sorted
             ELSE <<Head(sorted)>> \o InsertSorted(Tail(sorted), x, field, sign)

RECURSIVE SortBy(_, _, _)
SortBy(arr, field, sign) ==
    IF arr = <<>>
      THEN <<>>
      ELSE InsertSorted(SortBy(SubSeq(arr, 1, Len(arr) - 1), field, sign),
                        arr[Len(arr)], field, sign)

Ok(url) == [err |-> None, endpoint |-> url]
Throw(message) == [err |-> message, endpoint |-> None]

\* The endpoint list to probe at initialization (getInstance, lines 222-226)
InitialEndpoints(values) ==
    IF values.endpointsGiven
      THEN values.endpoints
      ELSE IF values.endpoint # None
             THEN <<values.endpoint>>
             ELSE <<GetDefaultEndpoint(values.network)>>

\* constructor, lines 73-83: the three ranked pointers; the array is sorted
\* in place three times
FastestOf(rpcSummaryArg) ==
    SortBy(SelectSeq(rpcSummaryArg, IsReachable), "speedMs", 1)

HighestSlotOf(rpcSummaryArg) ==
    SortBy(FastestOf(rpcSummaryArg), "currentSlot", -1)

LatestValidBlockHeightOf(rpcSummaryArg) ==
    SortBy(HighestSlotOf(rpcSummaryArg), "lastValidBlockHeight", -1)

\* constructor, lines 86-184: the switch on mode and the rpcUrl check
ConstructorSelect(values, rpcSummaryArg, rnd) ==
    LET endpoints == values.endpoints
        hasList == values.endpointsGiven /\ Len(endpoints) > 0
        mode == values.mode
        picked ==
          CASE mode = "single" ->
                 IF values.endpoint # None THEN Ok(values.endpoint)
                 ELSE IF hasList THEN Ok(ElementAt(endpoints, 0))
                 ELSE Ok(GetDefaultEndpoint(values.network))
            [] mode = "first" ->
                 IF hasList THEN Ok(ElementAt(endpoints, 0))
                 ELSE Throw("No endpoints provided with mode first")
            [] mode = "last" ->
                 IF hasList THEN Ok(ElementAt(endpoints, -1))
                 ELSE Throw("No endpoints provided with mode last")
            [] mode = "round-robin" ->
                 IF hasList THEN Ok(ElementAt(endpoints, 0))
                 ELSE Throw("No endpoints provided with mode round-robin")
            [] mode = "fastest" -> Ok(FastestOf(rpcSummaryArg)[1].endpoint)
            [] mode = "highest-slot" -> Ok(HighestSlotOf(rpcSummaryArg)[1].endpoint)
            [] mode = "latest-valid-block-height" ->
                 Ok(LatestValidBlockHeightOf(rpcSummaryArg)[1].endpoint)
            [] mode = "random" ->
                 IF hasList THEN Ok(ElementAt(endpoints, rnd))
                 ELSE Throw("No endpoints provided with mode random")
            [] OTHER -> Throw("Invalid mode")
    IN IF picked.err = None /\ picked.endpoint = None
         THEN Throw("No endpoint has been set")
         ELSE picked

\* connSync/conn, case 'round-robin' (lines 318-343 and 450-475)
RoundRobinSelectMutStay(cfg, current) ==
    [err |-> None, endpoint |-> current, index |-> IndexOf(cfg.endpoints, current)]

RoundRobinSelectMutNoWrap(cfg, current) ==
    LET nextIndex == IndexOf(cfg.endpoints, current) + 1
    IN [err |-> None, endpoint |-> ElementAt(cfg.endpoints, nextIndex), index |-> nextIndex]

RoundRobinSelect(cfg, current) ==
    LET endpoints == cfg.endpoints
        currentIndex == IndexOf(endpoints, current)
        nextIndex == IF currentIndex + 1 >= Len(endpoints) THEN 0 ELSE currentIndex + 1
    IN IF ~cfg.endpointsGiven
         THEN [err |-> "Current index is undefined", endpoint |-> None, index |-> -1]
         ELSE IF currentIndex = -1
           THEN IF current = GetDefaultEndpoint(cfg.network)
                  THEN [err |-> None, endpoint |-> ElementAt(endpoints, 0), index |-> 0]
                  ELSE [err |-> "Current endpoint not found in endpoints array",
                        endpoint |-> None, index |-> -1]
           ELSE [err |-> None, endpoint |-> ElementAt(endpoints, nextIndex), index |-> nextIndex]

(***************************************************************************)
(* ConnectionManager: state                                                *)
(***************************************************************************)

Procs == 1..MaxPending

NoValues == [network |-> None, endpoint |-> None, endpointsGiven |-> FALSE,
             endpoints |-> <<>>, mode |-> None]

Idle == [kind |-> "idle", values |-> NoValues, endpoints |-> <<>>, conn |-> None]

NoRun == [start |-> None, picks |-> <<>>]

NoRet == [step |-> None, mode |-> None, changeConn |-> FALSE, airdrop |-> FALSE,
          settled |-> FALSE, probed |-> FALSE, endpoint |-> None, inst |-> 0, err |-> None]

CMInit ==
    /\ instance = 0
    /\ constructed = 0
    /\ config = NoValues
    /\ connection = None
    /\ fastestEndpoint = None
    /\ highestSlotEndpoint = None
    /\ latestValidBlockHeightEndpoint = None
    /\ rpcSummary = <<>>
    /\ pending = [p \in Procs |-> Idle]
    /\ rrRun = NoRun
    /\ ret = NoRet

\* if (!ConnectionManager._instance)
HasInstanceMutNever == FALSE

HasInstance == instance # 0

FreeSlots == {p \in Procs : pending[p].kind = "idle"}

FreeSlot == CHOOSE p \in FreeSlots : \A q \in FreeSlots : p <= q

\* Math.floor(Math.random() * endpoints.length)
RandomIndices(values) ==
    IF values.mode = "random" /\ values.endpointsGiven /\ Len(values.endpoints) > 0
      THEN 0..(Len(values.endpoints) - 1)
      ELSE {0}

Returned(step, mode, changeConn, airdrop, endpoint, inst) ==
    [step |-> step, mode |-> mode, changeConn |-> changeConn, airdrop |-> airdrop,
     settled |-> TRUE, probed |-> FALSE, endpoint |-> endpoint, inst |-> inst, err |-> None]

Raised(step, mode, changeConn, airdrop, message) ==
    [step |-> step, mode |-> mode, changeConn |-> changeConn, airdrop |-> airdrop,
     settled |-> TRUE, probed |-> FALSE, endpoint |-> None, inst |-> 0, err |-> message]

\* the call issued a probe round (static getEndpointsSummary, line 541) and awaits it
Suspended(step, mode, changeConn, airdrop) ==
    [step |-> step, mode |-> mode, changeConn |-> changeConn, airdrop |-> airdrop,
     settled |-> FALSE, probed |-> TRUE, endpoint |-> None, inst |-> 0, err |-> None]

objectVars == <<instance, constructed, config, connection, fastestEndpoint,
                highestSlotEndpoint, latestValidBlockHeightEndpoint, rpcSummary, rrRun>>

(***************************************************************************)
(* ConnectionManager.getInstance                                           *)
(***************************************************************************)

\* getInstance(values) up to its await of the probe round
GetInstance(values) ==
    /\ IF HasInstance
         THEN /\ ret' = Returned("getInstance", values.mode, FALSE, FALSE, connection, instance)
              /\ UNCHANGED <<objectVars, pending>>
         ELSE IF Len(InitialEndpoints(values)) = 0
           THEN /\ ret' = Raised("getInstance", values.mode, FALSE, FALSE, "Endpoints array is empty")
                /\ UNCHANGED <<objectVars, pending>>
           ELSE /\ FreeSlots # {}
                /\ pending' = [pending EXCEPT ![FreeSlot] =
                       [kind |-> "getInstance", values |-> values,
                        endpoints |-> InitialEndpoints(values), conn |-> None]]
                /\ ret' = Suspended("getInstance", values.mode, FALSE, FALSE)
                /\ UNCHANGED objectVars
    /\ UNCHANGED <<txVars, swVars, tbVars, stVars, commitments>>

\* getInstance resumed with the probe round's results: lines 232-247 and the
\* constructor.  The calls suspended on the object that _instance held are
\* dropped with it: the model follows the object held in _instance.
GetInstanceResume(p, o, rnd) ==
    /\ pending[p].kind = "getInstance"
    /\ LET values == pending[p].values
           endpointsSummary == EndpointsSummary(pending[p].endpoints, o)
           endpointsSortedBySpeed == SortBy(SelectSeq(endpointsSummary, IsReachable), "speedMs", 1)
           sel == ConstructorSelect(values, endpointsSortedBySpeed, rnd)
       IN IF EveryUnreachable(endpointsSummary)
            THEN /\ ret' = Raised("getInstance.resume", values.mode, FALSE, FALSE, "No reachable endpoints")
                 /\ pending' = [pending EXCEPT ![p] = Idle]
                 /\ UNCHANGED objectVars
            ELSE IF sel.err # None
              THEN /\ ret' = Raised("getInstance.resume", values.mode, FALSE, FALSE, sel.err)
                   /\ pending' = [pending EXCEPT ![p] = Idle]
                   /\ UNCHANGED objectVars
              ELSE /\ instance' = constructed + 1
                   /\ constructed' = constructed + 1
                   /\ config' = values
                   /\ connection' = sel.endpoint
                   /\ fastestEndpoint' = FastestOf(endpointsSortedBySpeed)[1].endpoint
                   /\ highestSlotEndpoint' = HighestSlotOf(endpointsSortedBySpeed)[1].endpoint
                   /\ latestValidBlockHeightEndpoint' =
                          LatestValidBlockHeightOf(endpointsSortedBySpeed)[1].endpoint
                   /\ rpcSummary' = endpointsSortedBySpeed
                   /\ rrRun' = IF values.mode = "round-robin"
                                 THEN [start |-> sel.endpoint, picks |-> <<>>]
                                 ELSE NoRun
                   /\ pending' = [q \in Procs |->
                          IF q = p \/ pending[q].kind = "conn" THEN Idle ELSE pending[q]]
                   /\ ret' = Returned("getInstance.resume", values.mode, FALSE, FALSE,
                                      sel.endpoint, constructed + 1)
    /\ UNCHANGED <<txVars, swVars, tbVars, stVars, commitments>>

(***************************************************************************)
(* ConnectionManager.connSync and conn                                     *)
(***************************************************************************)

Picked(url) == [err |-> None, endpoint |-> url, index |-> -1]

\* connSync, lines 285-366: the switch on this._config.mode
ConnSyncSelectMutFromSummary(rnd) ==
    LET reachable == SelectSeq(rpcSummary, IsReachable)
    IN IF reachable = <<>>
         THEN Picked(connection)
         ELSE CASE config.mode = "fastest" -> Picked(SortBy(reachable, "speedMs", 1)[1].endpoint)
                [] config.mode = "highest-slot" ->
                     Picked(SortBy(reachable, "currentSlot", -1)[1].endpoint)
                [] OTHER -> Picked(connection)

ConnSyncSelect(rnd) ==
    CASE config.mode \in {"single", "first", "last"} -> Picked(connection)
      [] config.mode = "highest-slot" ->
           IF connection # highestSlotEndpoint THEN Picked(highestSlotEndpoint)
           ELSE Picked(connection)
      [] config.mode = "fastest" ->
           IF connection # fastestEndpoint THEN Picked(fastestEndpoint)
           ELSE Picked(connection)
      [] config.mode = "round-robin" -> RoundRobinSelect(config, connection)
      [] config.mode = "latest-valid-block-height" ->
           IF connection # latestValidBlockHeightEndpoint
             THEN Picked(latestValidBlockHeightEndpoint)
             ELSE Picked(connection)
      [] config.mode = "random" -> Picked(ElementAt(config.endpoints, rnd))
      [] OTHER -> Picked(connection)

\* conn, lines 400-505, the modes that do not await
ConnSelect(rnd) ==
    CASE config.mode \in {"single", "first", "last"} -> Picked(connection)
      [] config.mode = "round-robin" -> RoundRobinSelect(config, connection)
      [] config.mode = "random" -> Picked(ElementAt(config.endpoints, rnd))
      [] OTHER -> Picked(connection)

\* conn, cases 'highest-slot', 'fastest', 'latest-valid-block-height' after
\* the await: `captured` is the local conn assigned before the await
ConnRankedSelect(mode, endpointsSummary, captured) ==
    LET reachable == SelectSeq(endpointsSummary, IsReachable)
        target == CASE mode = "highest-slot" -> SortBy(reachable, "currentSlot", 1)[1].endpoint
                    [] mode = "fastest" -> SortBy(reachable, "speedMs", 1)[1].endpoint
                    [] OTHER -> SortBy(reachable, "lastValidBlockHeight", -1)[1].endpoint
        conn == IF connection # target THEN target ELSE captured
    IN CASE mode = "latest-valid-block-height" -> connection  \* falls through to default:
         [] OTHER -> conn

\* the rotations of the current run, for the round-robin policy
RunAfter(step, airdrop, sel) ==
    IF config.mode # "round-robin"
      THEN rrRun
      ELSE IF airdrop
        THEN [start |-> sel.endpoint, picks |-> <<>>]
        ELSE [start |-> rrRun.start, picks |-> Append(rrRun.picks, sel.index + 1)]

RunOpen(changeConn, airdrop) ==
    (config.mode = "round-robin" /\ changeConn /\ ~airdrop) => Len(rrRun.picks) < MaxTrace

\* if (!changeConn) { return this._connection; }   (connSync line 273, conn line 388)
ReturnsCurrentMutNever(changeConn) == FALSE

ReturnsCurrent(changeConn) == ~changeConn

\* connSync({changeConn, airdrop})
ConnSync(changeConn, airdrop, rnd) ==
    /\ HasInstance
    /\ RunOpen(changeConn, airdrop)
    /\ IF ReturnsCurrent(changeConn)
         THEN /\ ret' = Returned("connSync", config.mode, changeConn, airdrop, connection, instance)
              /\ UNCHANGED <<connection, rrRun>>
         ELSE LET sel == IF airdrop THEN Picked(GetDefaultEndpoint(config.network))
                         ELSE ConnSyncSelect(rnd)
              IN IF sel.err # None
                   THEN /\ ret' = Raised("connSync", config.mode, changeConn, airdrop, sel.err)
                        /\ UNCHANGED <<connection, rrRun>>
                   ELSE /\ connection' = sel.endpoint
                        /\ rrRun' = RunAfter("connSync", airdrop, sel)
                        /\ ret' = Returned("connSync", config.mode, changeConn, airdrop,
                                           sel.endpoint, instance)
    /\ UNCHANGED <<instance, constructed, config, fastestEndpoint, highestSlotEndpoint,
                   latestValidBlockHeightEndpoint, rpcSummary, pending, txVars, swVars, tbVars, stVars, commitments>>

\* conn({changeConn, airdrop}) up to its await of the probe round, or to its
\* return when the mode does not probe
Conn(changeConn, airdrop, rnd) ==
    /\ HasInstance
    /\ RunOpen(changeConn, airdrop)
    /\ IF ReturnsCurrent(changeConn)
         THEN /\ ret' = Returned("conn", config.mode, changeConn, airdrop, connection, instance)
              /\ UNCHANGED <<connection, rrRun, pending>>
         ELSE IF ~airdrop /\ config.mode \in RankedModes
           THEN /\ FreeSlots # {}
                /\ pending' = [pending EXCEPT ![FreeSlot] =
                       [kind |-> "conn", values |-> NoValues,
                        endpoints |-> IF config.endpointsGiven THEN config.endpoints
                                      ELSE <<connection>>,
                        conn |-> connection]]
                /\ ret' = Suspended("conn", config.mode, changeConn, airdrop)
                /\ UNCHANGED <<connection, rrRun>>
           ELSE LET sel == IF airdrop THEN Picked(GetDefaultEndpoint(config.network))
                           ELSE ConnSelect(rnd)
                IN /\ IF sel.err # None
                        THEN /\ ret' = Raised("conn", config.mode, changeConn, airdrop, sel.err)
                             /\ UNCHANGED <<connection, rrRun>>
                        ELSE /\ connection' = sel.endpoint
                             /\ rrRun' = RunAfter("conn", airdrop, sel)
                             /\ ret' = Returned("conn", config.mode, changeConn, airdrop,
                                                sel.endpoint, instance)
                   /\ UNCHANGED pending
    /\ UNCHANGED <<instance, constructed, config, fastestEndpoint, highestSlotEndpoint,
                   latestValidBlockHeightEndpoint, rpcSummary, txVars, swVars, tbVars, stVars, commitments>>

\* conn resumed with the probe round's results: getEndpointsSummary stores
\* the summary (line 520), then the case of the mode continues
ConnResumeMutRebindFirst(p, o) ==
    /\ pending[p].kind = "conn"
    /\ LET endpointsSummary == EndpointsSummary(pending[p].endpoints, o)
       IN /\ rpcSummary' = endpointsSummary
          /\ IF EveryUnreachable(endpointsSummary)
               THEN /\ ret' = Raised("conn.resume", config.mode, TRUE, FALSE, "All endpoints unreachable")
                    /\ connection' = endpointsSummary[1].endpoint
               ELSE /\ connection' = ConnRankedSelect(config.mode, endpointsSummary, pending[p].conn)
                    /\ ret' = Returned("conn.resume", config.mode, TRUE, FALSE, connection', instance)
    /\ pending' = [pending EXCEPT ![p] = Idle]
    /\ UNCHANGED <<instance, constructed, config, fastestEndpoint, highestSlotEndpoint,
                   latestValidBlockHeightEndpoint, rrRun, txVars, swVars, tbVars, stVars, commitments>>

ConnResume(p, o) ==
    /\ pending[p].kind = "conn"
    /\ LET endpointsSummary == EndpointsSummary(pending[p].endpoints, o)
       IN /\ rpcSummary' = endpointsSummary
          /\ IF EveryUnreachable(endpointsSummary)
               THEN /\ ret' = Raised("conn.resume", config.mode, TRUE, FALSE, "All endpoints unreachable")
                    /\ UNCHANGED connection
               ELSE /\ connection' = ConnRankedSelect(config.mode, endpointsSummary, pending[p].conn)
                    /\ ret' = Returned("conn.resume", config.mode, TRUE, FALSE, connection', instance)
    /\ pending' = [pending EXCEPT ![p] = Idle]
    /\ UNCHANGED <<instance, constructed, config, fastestEndpoint, highestSlotEndpoint,
                   latestValidBlockHeightEndpoint, rrRun, txVars, swVars, tbVars, stVars, commitments>>

(***************************************************************************)
(* SingleTransactionWrapper.send and TransactionWrapper.sign               *)
(***************************************************************************)

Conns == 1..MaxConnections

\* an optional boolean argument
Optional == {"true", "false", "undefined"}

Truthy(x) == x = "true"

SwArgs ==
    [n : 0..MaxConnections,          \* this._connections.length
     instructions : 0..1,            \* this._transaction.instructions.length
     wallet : BOOLEAN,               \* a wallet is passed
     shouldConfirm : BOOLEAN,        \* this._shouldConfirm
     shouldConfirmOverride : Optional,
     shouldRaceSend : Optional,
     confirmationCommitment : OptionalCommitment]

NoArgs == [n |-> 0, instructions |-> 0, wallet |-> FALSE, shouldConfirm |-> TRUE,
           shouldConfirmOverride |-> "undefined", shouldRaceSend |-> "undefined",
           confirmationCommitment |-> "undefined"]

Unstamped == [type |-> "Transaction", recentBlockhash |-> FALSE, signed |-> FALSE]

NoSwResult == [kind |-> None, msg |-> None, sigs |-> <<>>]

SwThrown(message) == [kind |-> "thrown", msg |-> message, sigs |-> <<>>]

SwReturned(sigs) == [kind |-> "returned", msg |-> None, sigs |-> sigs]

NoSign == [pc |-> "idle", kind |-> None, value |-> None]

SwInit ==
    /\ swPc = "idle"
    /\ swArgs = NoArgs
    /\ swTransaction = Unstamped
    /\ swSends = [c \in Conns |-> 0]
    /\ swTasks = [c \in Conns |-> None]
    /\ swSignatures = <<>>
    /\ swRace = None
    /\ swChecks = {}
    /\ swChecked = {}
    /\ swResult = NoSwResult
    /\ signState = NoSign

\* send, lines 89-111: validation, then await getLatestBlockhash on connections[0]
SwSend(args) ==
    /\ swPc = "idle"
    /\ swArgs' = args
    /\ IF args.instructions = 0
         THEN swPc' = "done" /\ swResult' = SwThrown("Transaction has no instructions")
         ELSE IF args.n = 0
           THEN swPc' = "done" /\ swResult' = SwThrown("No connections provided")
           ELSE swPc' = "getLatestBlockhash" /\ swResult' = NoSwResult
    /\ commitments' = IF swPc' = "getLatestBlockhash"
                        THEN [commitments EXCEPT
                                !.swFetch = CommitmentOrMax(args.confirmationCommitment)]
                        ELSE commitments
    /\ UNCHANGED <<swTransaction, swSends, swTasks, swSignatures, swRace, swChecks, swChecked,
                   signState, txVars, cmVars, tbVars, stVars>>

\* sendTransaction, lines 173-190: the connection the request goes to
SendTarget(conn) == 1

\* send, lines 146-156: the sends are issued; tx is this._transaction by now
Submit(tx) ==
    /\ swTransaction' = tx
    /\ IF tx.type = "undefined"
         THEN /\ swPc' = "done"
              /\ swResult' = SwThrown("Invalid transaction type")
              /\ UNCHANGED <<swSends, swTasks, swRace>>
         ELSE LET callbacks == IF Truthy(swArgs.shouldRaceSend) THEN 1..swArgs.n ELSE {1}
              IN /\ swTasks' = [c \in Conns |-> IF c \in callbacks THEN "inflight" ELSE None]
                 /\ swSends' = [c \in Conns |->
                        swSends[c] + Cardinality({t \in callbacks : SendTarget(t) = c})]
                 /\ swRace' = IF Truthy(swArgs.shouldRaceSend) THEN "pending" ELSE None
                 /\ swPc' = IF Truthy(swArgs.shouldRaceSend) THEN "race" ELSE "send"
                 /\ swResult' = NoSwResult

\* send, lines 105-118 after the await, then the sign step up to its await
SwGetLatestBlockhashSettlesMutSignNotAwaited(ok) ==
    /\ swPc = "getLatestBlockhash"
    /\ IF ~ok
         THEN /\ swPc' = "done"
              /\ swResult' = SwThrown("getLatestBlockhash failed")
              /\ UNCHANGED <<swTransaction, swSends, swTasks, swRace>>
         ELSE Submit([swTransaction EXCEPT !.recentBlockhash = TRUE])
    /\ UNCHANGED <<swArgs, swSignatures, swChecks, swChecked, signState, txVars, cmVars, tbVars, stVars, commitments>>

SwGetLatestBlockhashSettles(ok) ==
    /\ swPc = "getLatestBlockhash"
    /\ IF ~ok
         THEN /\ swPc' = "done"
              /\ swResult' = SwThrown("getLatestBlockhash failed")
              /\ UNCHANGED <<swTransaction, swSends, swTasks, swRace>>
         ELSE IF swArgs.wallet
           THEN /\ swPc' = "signTransaction"
                /\ swTransaction' = [swTransaction EXCEPT !.recentBlockhash = TRUE]
                /\ UNCHANGED <<swSends, swTasks, swRace, swResult>>
           ELSE Submit([swTransaction EXCEPT !.recentBlockhash = TRUE])
    /\ UNCHANGED <<swArgs, swSignatures, swChecks, swChecked, signState, txVars, cmVars, tbVars, stVars, commitments>>

\* what wallet.signTransaction / signAllTransactions yields (IWallet, lines 3-4)
WalletOutcomes == {"signed", "undefined", "throws"}

\* send, line 128: this._transaction = await wallet.signTransaction(...)
SwSignTransactionSettles(outcome) ==
    /\ swPc = "signTransaction"
    /\ CASE outcome = "throws" ->
              /\ swPc' = "done"
              /\ swResult' = SwThrown("signTransaction failed")
              /\ UNCHANGED <<swTransaction, swSends, swTasks, swRace>>
         [] outcome = "undefined" ->
              Submit([type |-> "undefined", recentBlockhash |-> FALSE, signed |-> FALSE])
         [] OTHER -> Submit([swTransaction EXCEPT !.signed = TRUE])
    /\ UNCHANGED <<swArgs, swSignatures, swChecks, swChecked, signState, txVars, cmVars, tbVars, stVars, commitments>>

\* send, lines 159-169: the confirmation polls to issue, <<connection, signature>>
ConfirmTargetsMutPrimaryOnly(sigs) ==
    IF swArgs.shouldConfirm /\ Truthy(swArgs.shouldConfirmOverride) /\ Len(sigs) > 0
       /\ swArgs.shouldRaceSend \in {"true", "false"}
      THEN {<<1, sigs[i]>> : i \in 1..Len(sigs)}
      ELSE {}

ConfirmTargets(sigs) ==
    IF swArgs.shouldConfirm /\ Truthy(swArgs.shouldConfirmOverride) /\ Len(sigs) > 0
      THEN IF swArgs.shouldRaceSend = "false"
             THEN {<<1, sigs[i]>> : i \in 1..Len(sigs)}
             ELSE IF Truthy(swArgs.shouldRaceSend)
               THEN {<<c, sigs[i]>> : c \in 1..swArgs.n, i \in 1..Len(sigs)}
               ELSE {}
      ELSE {}

\* send, lines 158-171, up to the await of the polls, or to the return
ConfirmStage(sigs) ==
    IF ConfirmTargets(sigs) = {}
      THEN /\ swPc' = "done"
           /\ swResult' = SwReturned(sigs)
           /\ swChecks' = {}
           /\ UNCHANGED commitments
      ELSE /\ swPc' = "confirm"
           /\ swResult' = NoSwResult
           /\ swChecks' = ConfirmTargets(sigs)
           /\ commitments' = [commitments EXCEPT
                                !.swPoll = CommitmentOrMax(swArgs.confirmationCommitment)]

\* the send of callback t settles: lines 150-151 (raced) or 154-155
SwSendTransactionSettles(t, ok) ==
    /\ swTasks[t] = "inflight"
    /\ swTasks' = [swTasks EXCEPT ![t] = IF ok THEN "resolved" ELSE "rejected"]
    /\ swSignatures' = IF ok THEN Append(swSignatures, t) ELSE swSignatures
    /\ IF swPc = "send"
         THEN /\ IF ok
                   THEN ConfirmStage(swSignatures')
                   ELSE /\ swPc' = "done"
                        /\ swResult' = SwThrown("send failed")
                        /\ UNCHANGED <<swChecks, commitments>>
              /\ UNCHANGED swRace
         ELSE /\ swRace' = IF swRace = "pending"
                             THEN (IF ok THEN "resolved" ELSE "rejected")
                             ELSE swRace
              /\ UNCHANGED <<swPc, swResult, swChecks, commitments>>
    /\ UNCHANGED <<swArgs, swTransaction, swSends, swChecked, signState, txVars, cmVars, tbVars, stVars>>

\* await Promise.race(...) settles, line 149
SwRaceSettles ==
    /\ swPc = "race"
    /\ swRace \in {"resolved", "rejected"}
    /\ IF swRace = "rejected"
         THEN /\ swPc' = "done"
              /\ swResult' = SwThrown("send failed")
              /\ UNCHANGED <<swChecks, commitments>>
         ELSE ConfirmStage(swSignatures)
    /\ UNCHANGED <<swArgs, swTransaction, swSends, swTasks, swSignatures, swRace, swChecked,
                   signState, txVars, cmVars, tbVars, stVars>>

\* a confirmTransaction poll settles; the Promise.all of lines 160/164 with it
SwConfirmTransactionSettles(check, ok) ==
    /\ swPc = "confirm"
    /\ check \in swChecks \ swChecked
    /\ IF ok
         THEN /\ swChecked' = swChecked \cup {check}
              /\ IF swChecked' = swChecks
                   THEN swPc' = "done" /\ swResult' = SwReturned(swSignatures)
                   ELSE UNCHANGED <<swPc, swResult>>
         ELSE /\ swPc' = "done"
              /\ swResult' = SwThrown("confirmTransaction failed")
              /\ UNCHANGED swChecked
    /\ UNCHANGED <<swArgs, swTransaction, swSends, swTasks, swSignatures, swRace, swChecks,
                   signState, txVars, cmVars, tbVars, stVars, commitments>>

\* TransactionWrapper.sign({wallet, signers}) up to its await
Sign(wallet, signers) ==
    /\ signState.pc = "idle"
    /\ signState' =
         IF ~wallet /\ ~signers
           THEN [pc |-> "done", kind |-> "thrown", value |-> "No wallet or signers provided"]
           ELSE IF wallet
             THEN [pc |-> "signAllTransactions", kind |-> None, value |-> None]
             ELSE [pc |-> "done", kind |-> "returned", value |-> "signed"]
    /\ UNCHANGED <<swPc, swArgs, swTransaction, swSends, swTasks, swSignatures, swRace,
                   swChecks, swChecked, swResult, txVars, cmVars, tbVars, stVars, commitments>>

\* sign, lines 133-134: var signedTx = await wallet.signAllTransactions(txs); return signedTx!
SignAllTransactionsSettles(outcome) ==
    /\ signState.pc = "signAllTransactions"
    /\ signState' =
         IF outcome = "throws"
           THEN [pc |-> "done", kind |-> "thrown", value |-> "signAllTransactions failed"]
           ELSE [pc |-> "done", kind |-> "returned", value |-> outcome]
    /\ UNCHANGED <<swPc, swArgs, swTransaction, swSends, swTasks, swSignatures, swRace,
                   swChecks, swChecked, swResult, txVars, cmVars, tbVars, stVars, commitments>>

(***************************************************************************)
(* TransactionBuilder and TransactionHelper.createTokenAccountIx           *)
(*                                                                         *)
(* Arrays and Transaction objects are kept in a heap, because build hands  *)
(* out the builder's own Transaction holding the builder's own array:      *)
(* arrays[a] is the content of array a, txs[t].instructions the array that *)
(* transaction t's field `instructions` refers to.                         *)
(***************************************************************************)

\* the instructions the builder makes; id tells two instructions of one
\* program apart
Instruction(program, id) == [program |-> program, id |-> id]

\* ComputeBudgetProgram.setComputeUnitLimit / setComputeUnitPrice (lines 140-145)
ModifyComputeUnits(id) == Instruction("ComputeBudget.setComputeUnitLimit", id)

AddPriorityFee(id) == Instruction("ComputeBudget.setComputeUnitPrice", id)

\* addSolTransferIx, addSplTransferIx and addSplTransferIxByOwners build a
\* transfer, addMemoIx a memo; each then calls this.addIx(ix)
AddPrograms == {"System.transfer", "Memo"}

\* connection.getAccountInfo: null, an account, or a rejected request
AccountInfos == {"null", "account", "rejected"}

NoLast == [op |-> "create", accInfo |-> None]

Done(op) == [op |-> op, accInfo |-> None]

NoHelper == [pc |-> "idle", accInfo |-> None, result |-> None]

\* TransactionBuilder.create(): new Transaction() (array 1 is its own empty
\* instruction list) and this._instructions = [] (array 2)
TbInit ==
    /\ arrays = <<<<>>, <<>>>>
    /\ txs = <<[instructions |-> 1]>>
    /\ bTransaction = 1
    /\ bInstructions = 2
    /\ built = <<>>
    /\ bOps = 0
    /\ bLast = NoLast
    /\ bPc = "idle"
    /\ helper = NoHelper

\* this._instructions, read through the reference
Instructions == arrays[bInstructions]

\* the content of transaction t's instruction list in heap <<a, x>>
InstructionsOf(a, x, t) == a[x[t].instructions]

\* addIx: this._instructions = this._instructions.concat(instruction), a new
\* array; the array that was referenced is left as it is
AddIx(instruction) ==
    /\ arrays' = Append(arrays, Instructions \o <<instruction>>)
    /\ bInstructions' = Len(arrays) + 1

CanCall == bPc = "idle" /\ bOps < MaxOps

\* addSolTransferIx / addSplTransferIx / addSplTransferIxByOwners / addMemoIx
AddTransferIx(program) ==
    /\ CanCall
    /\ AddIx(Instruction(program, bOps + 1))
    /\ bOps' = bOps + 1
    /\ bLast' = Done("addIx")
    /\ UNCHANGED <<txs, bTransaction, built, bPc, helper, txVars, cmVars, swVars, stVars, commitments>>

\* addComputeBudgetIx: this._instructions.unshift(modifyComputeUnits,
\* addPriorityFee), in place
AddComputeBudgetIxMutPush ==
    /\ CanCall
    /\ arrays' = [arrays EXCEPT ![bInstructions] =
                      @ \o <<ModifyComputeUnits(bOps + 1), AddPriorityFee(bOps + 1)>>]
    /\ bOps' = bOps + 1
    /\ bLast' = Done("addComputeBudgetIx")
    /\ UNCHANGED <<txs, bTransaction, bInstructions, built, bPc, helper,
                   txVars, cmVars, swVars, stVars, commitments>>

AddComputeBudgetIx ==
    /\ CanCall
    /\ arrays' = [arrays EXCEPT ![bInstructions] =
                      <<ModifyComputeUnits(bOps + 1), AddPriorityFee(bOps + 1)>> \o @]
    /\ bOps' = bOps + 1
    /\ bLast' = Done("addComputeBudgetIx")
    /\ UNCHANGED <<txs, bTransaction, bInstructions, built, bPc, helper,
                   txVars, cmVars, swVars, stVars, commitments>>

\* reset: this._transaction = new Transaction(); this._instructions = []
ResetMutClearsInPlace ==
    /\ CanCall
    /\ arrays' = [arrays EXCEPT ![bInstructions] = <<>>]
    /\ bOps' = bOps + 1
    /\ bLast' = Done("reset")
    /\ UNCHANGED <<txs, bTransaction, bInstructions, built, bPc, helper,
                   txVars, cmVars, swVars, stVars, commitments>>

Reset ==
    /\ CanCall
    /\ arrays' = arrays \o <<<<>>, <<>>>>
    /\ txs' = Append(txs, [instructions |-> Len(arrays) + 1])
    /\ bTransaction' = Len(txs) + 1
    /\ bInstructions' = Len(arrays) + 2
    /\ bOps' = bOps + 1
    /\ bLast' = Done("reset")
    /\ UNCHANGED <<built, bPc, helper, txVars, cmVars, swVars, stVars, commitments>>

\* build: this._transaction.instructions = this._instructions; return
\* this._transaction.  built records which object each call returned and what
\* its instruction list held at that moment.
Build ==
    /\ CanCall
    /\ txs' = [txs EXCEPT ![bTransaction] = [instructions |-> bInstructions]]
    /\ built' = Append(built, [tx |-> bTransaction, instructions |-> Instructions])
    /\ bOps' = bOps + 1
    /\ bLast' = Done("build")
    /\ UNCHANGED <<arrays, bTransaction, bInstructions, bPc, helper,
                   txVars, cmVars, swVars, stVars, commitments>>

\* addCreateTokenAccountIx up to await connection.getAccountInfo
AddCreateTokenAccountIx ==
    /\ CanCall
    /\ bPc' = "getAccountInfo"
    /\ bOps' = bOps + 1
    /\ bLast' = Done("addCreateTokenAccountIx")
    /\ UNCHANGED <<arrays, txs, bTransaction, bInstructions, built, helper,
                   txVars, cmVars, swVars, stVars, commitments>>

\* addCreateTokenAccountIx resumed: if (accInfo === null) this.addIx(ix)
GetAccountInfoSettles(accInfo) ==
    /\ bPc = "getAccountInfo"
    /\ IF accInfo = "null"
         THEN AddIx(Instruction("AssociatedToken.create", bOps))
         ELSE UNCHANGED <<arrays, bInstructions>>
    /\ bPc' = "idle"
    /\ bLast' = [op |-> "addCreateTokenAccountIx", accInfo |-> accInfo]
    /\ UNCHANGED <<txs, bTransaction, built, bOps, helper, txVars, cmVars, swVars, stVars, commitments>>

\* TransactionHelper.createTokenAccountIx up to await connection.getAccountInfo
CreateTokenAccountIx ==
    /\ helper.pc # "getAccountInfo"
    /\ helper' = [pc |-> "getAccountInfo", accInfo |-> None, result |-> None]
    /\ UNCHANGED <<arrays, txs, bTransaction, bInstructions, built, bOps, bLast, bPc,
                   txVars, cmVars, swVars, stVars, commitments>>

\* TransactionHelper.createTokenAccountIx resumed:
\* if (accInfo !== null) return ix; else return null
HelperGetAccountInfoSettles(accInfo) ==
    /\ helper.pc = "getAccountInfo"
    /\ helper' = [pc |-> "done", accInfo |-> accInfo,
                  result |-> CASE accInfo = "rejected" -> "thrown"
                               [] accInfo # "null" -> "instruction"
                               [] OTHER -> "null"]
    /\ UNCHANGED <<arrays, txs, bTransaction, bInstructions, built, bOps, bLast, bPc,
                   txVars, cmVars, swVars, stVars, commitments>>

(***************************************************************************)
(* TransactionWrapper.create and addBlockhashAndFeePayer                   *)
(***************************************************************************)

\* the transactions handed to create: with or without instructions, with or
\* without a fee payer of their own ("T")
TxShapes == [instructions : {0, 1}, recentBlockhash : {None}, feePayer : {None, "T"}]

TxLists == UNION {[1..n -> TxShapes] : n \in 0..MaxTransactions}

NoStResult == [kind |-> None, msg |-> None]

StInit ==
    /\ stPc = "idle"
    /\ stTransactions = <<>>
    /\ stCreated = <<>>
    /\ stFeePayer = None
    /\ stSigner = None
    /\ stOverride = None
    /\ stNetworkCalls = 0
    /\ stResult = NoStResult

\* create({transaction(s), ..., signer}): new TransactionWrapper(conn,
\* transaction || transactions); the constructor's third argument feePayer
\* is not passed, whatever fee payer the caller names (signer, as the README
\* does, line 190)
Create(transactions, signer, connectionConfig) ==
    /\ stPc = "idle"
    /\ commitments' = [commitments EXCEPT !.connection = connectionConfig]
    /\ stPc' = "created"
    /\ stTransactions' = transactions
    /\ stCreated' = transactions
    /\ stSigner' = signer
    /\ stFeePayer' = None
    /\ UNCHANGED <<stOverride, stNetworkCalls, stResult, txVars, cmVars, swVars, tbVars>>

\* addBlockhashAndFeePayer(feePayer) up to await getLatestBlockhash (line 100)
AddBlockhashAndFeePayer(feePayer) ==
    /\ stPc = "created"
    /\ stPc' = "getLatestBlockhash"
    /\ stOverride' = feePayer
    /\ stNetworkCalls' = stNetworkCalls + 1
    /\ commitments' = [commitments EXCEPT
                         !.stamp = ConnectionCommitment(commitments.connection)]
    /\ UNCHANGED <<stTransactions, stCreated, stFeePayer, stSigner, stResult,
                   txVars, cmVars, swVars, tbVars>>

\* feePayer || this._feePayer
Or(a, b) == IF a # None THEN a ELSE b

\* the for loop of lines 101-111 over the transactions from index i on: each
\* transaction is stamped, then checked; the loop ends at the first throw
RECURSIVE StampFrom(_, _, _, _)
StampFrom(transactions, i, blockhash, feePayer) ==
    IF i > Len(transactions)
      THEN [transactions |-> transactions, thrown |-> FALSE]
      ELSE LET stamped == [transactions EXCEPT ![i] =
                              [@ EXCEPT !.recentBlockhash = blockhash,
                                        !.feePayer = Or(feePayer, stFeePayer)]]
           IN IF stamped[i].feePayer = None
                THEN [transactions |-> stamped, thrown |-> TRUE]
                ELSE StampFrom(stamped, i + 1, blockhash, feePayer)

\* addBlockhashAndFeePayer resumed (lines 100-112)
StGetLatestBlockhashSettles(ok) ==
    /\ stPc = "getLatestBlockhash"
    /\ stPc' = "done"
    /\ IF ~ok
         THEN /\ stResult' = [kind |-> "thrown", msg |-> "getLatestBlockhash failed"]
              /\ UNCHANGED stTransactions
         ELSE LET loop == StampFrom(stTransactions, 1, "H", stOverride)
              IN /\ stTransactions' = loop.transactions
                 /\ stResult' = IF loop.thrown
                                  THEN [kind |-> "thrown", msg |-> "Fee payer must be defined"]
                                  ELSE [kind |-> "returned", msg |-> None]
    /\ UNCHANGED <<stCreated, stFeePayer, stSigner, stOverride, stNetworkCalls,
                   txVars, cmVars, swVars, tbVars, commitments>>

Init == TxInit /\ CMInit /\ SwInit /\ TbInit /\ StInit /\ CommitmentInit

(***************************************************************************)
(* Inputs and specifications                                               *)
(***************************************************************************)

Network == "devnet"

ValuesOf(modes, endpointChoices, lists) ==
    { [network |-> Network, endpoint |-> e, endpointsGiven |-> l.given,
       endpoints |-> l.list, mode |-> m] :
        m \in modes, e \in endpointChoices, l \in lists }

Absent == [given |-> FALSE, list |-> <<>>]
Given(list) == [given |-> TRUE, list |-> list]

\* every mode, over no list, an empty list and a two-element list
ValuesAll ==
    ValuesOf(Modes, {None}, {Absent, Given(<<>>), Given(<<"A", "B">>)})
    \cup ValuesOf(Modes, {"A"}, {Absent})

\* the ranked modes over a two-element list
ValuesRanked == ValuesOf(RankedModes, {None}, {Given(<<"A", "B">>)})

\* round-robin over lists of up to three endpoints, with and without a repeated URL
ValuesRoundRobin ==
    ValuesOf({"round-robin"}, {None},
             {Given(<<"A", "B">>), Given(<<"A", "B", "C">>), Given(<<"A", "A", "B">>)})

Rounds(p, outcomes) == [1..Len(pending[p].endpoints) -> outcomes]

SuspendedIn(kind) == {p \in Procs : pending[p].kind = kind}

NoneSuspended == \A p \in Procs : pending[p].kind = "idle"

\* Every policy and every shape of configuration, each call awaited before
\* the next one is made; the probes differ in reachability only.
Next ==
    \/ /\ NoneSuspended
       /\ \E values \in ValuesAll : GetInstance(values)
    \/ \E p \in SuspendedIn("getInstance") : \E o \in Rounds(p, ReachabilityOutcomes) :
         \E rnd \in RandomIndices(pending[p].values) : GetInstanceResume(p, o, rnd)
    \/ /\ NoneSuspended
       /\ \E changeConn, airdrop \in BOOLEAN : \E rnd \in RandomIndices(config) :
            ConnSync(changeConn, airdrop, rnd)
    \/ /\ NoneSuspended
       /\ \E changeConn, airdrop \in BOOLEAN : \E rnd \in RandomIndices(config) :
            Conn(changeConn, airdrop, rnd)
    \/ \E p \in SuspendedIn("conn") : \E o \in Rounds(p, ReachabilityOutcomes) : ConnResume(p, o)

Spec == Init /\ [][Next]_vars

\* The ranked policies, each call awaited before the next one is made; the
\* probes differ in every metric.
NextRanked ==
    \/ /\ NoneSuspended
       /\ \E values \in ValuesRanked : GetInstance(values)
    \/ \E p \in SuspendedIn("getInstance") : \E o \in Rounds(p, ProbeOutcomes) :
         GetInstanceResume(p, o, 0)
    \/ /\ NoneSuspended
       /\ \E changeConn \in BOOLEAN : ConnSync(changeConn, FALSE, 0)
    \/ /\ NoneSuspended
       /\ \E changeConn \in BOOLEAN : Conn(changeConn, FALSE, 0)
    \/ \E p \in SuspendedIn("conn") : \E o \in Rounds(p, ProbeOutcomes) : ConnResume(p, o)

SpecRanked == Init /\ [][NextRanked]_vars

\* Overlapping calls: a call may be made while others are suspended in their
\* probe round.  One ranked and one unranked policy; the probes differ in
\* reachability and latency.
ValuesOverlap == ValuesOf({"fastest", "round-robin"}, {None}, {Given(<<"A", "B">>)})

LatencyOutcomes == {o \in ProbeOutcomes : o.currentSlot <= 1 /\ o.lastValidBlockHeight <= 1}

NextOverlap ==
    \/ \E values \in ValuesOverlap : GetInstance(values)
    \/ \E p \in SuspendedIn("getInstance") : \E o \in Rounds(p, LatencyOutcomes) :
         GetInstanceResume(p, o, 0)
    \/ ConnSync(TRUE, FALSE, 0)
    \/ Conn(TRUE, FALSE, 0)
    \/ \E p \in SuspendedIn("conn") : \E o \in Rounds(p, LatencyOutcomes) : ConnResume(p, o)

SpecOverlap == Init /\ [][NextOverlap]_vars

\* The round-robin policy; the probes differ in reachability only.
NextRoundRobin ==
    \/ /\ NoneSuspended
       /\ \E values \in ValuesRoundRobin : GetInstance(values)
    \/ \E p \in SuspendedIn("getInstance") : \E o \in Rounds(p, ReachabilityOutcomes) :
         GetInstanceResume(p, o, 0)
    \/ \E changeConn, airdrop \in BOOLEAN : ConnSync(changeConn, airdrop, 0)
    \/ \E changeConn, airdrop \in BOOLEAN : Conn(changeConn, airdrop, 0)

SpecRoundRobin == Init /\ [][NextRoundRobin]_vars

SpecTx == Init /\ [][TxNext]_vars

\* sendAndConfirm when every call it awaits (sendTx, getLatestBlockhash,
\* confirmTransaction) eventually returns or raises
SpecTxLive ==
    /\ Init
    /\ [][TxNext]_vars
    /\ WF_vars(SendTxSettles)
    /\ WF_vars(GetLatestBlockhashSettles)
    /\ WF_vars(ConfirmTransactionSettles)

\* One run of SingleTransactionWrapper.send and one of TransactionWrapper.sign
NextSingle ==
    \/ \E args \in SwArgs : SwSend(args)
    \/ \E ok \in BOOLEAN : SwGetLatestBlockhashSettles(ok)
    \/ \E outcome \in WalletOutcomes : SwSignTransactionSettles(outcome)
    \/ \E t \in Conns : \E ok \in BOOLEAN : SwSendTransactionSettles(t, ok)
    \/ SwRaceSettles
    \/ \E check \in swChecks : \E ok \in BOOLEAN : SwConfirmTransactionSettles(check, ok)
    \/ \E wallet, signers \in BOOLEAN : Sign(wallet, signers)
    \/ \E outcome \in WalletOutcomes : SignAllTransactionsSettles(outcome)

SpecSingle == Init /\ [][NextSingle]_vars

\* One TransactionBuilder, its operations called one after the other, and
\* runs of TransactionHelper.createTokenAccountIx
NextBuilder ==
    \/ \E program \in AddPrograms : AddTransferIx(program)
    \/ AddComputeBudgetIx
    \/ Reset
    \/ Build
    \/ AddCreateTokenAccountIx
    \/ \E accInfo \in AccountInfos : GetAccountInfoSettles(accInfo)
    \/ CreateTokenAccountIx
    \/ \E accInfo \in AccountInfos : HelperGetAccountInfoSettles(accInfo)

SpecBuilder == Init /\ [][NextBuilder]_vars

\* One TransactionWrapper: create, then one addBlockhashAndFeePayer
NextStamp ==
    \/ \E transactions \in TxLists : \E signer \in {None, "S"} :
         \E connectionConfig \in OptionalCommitment :
           Create(transactions, signer, connectionConfig)
    \/ \E feePayer \in {None, "O"} : AddBlockhashAndFeePayer(feePayer)
    \/ \E ok \in BOOLEAN : StGetLatestBlockhashSettles(ok)

SpecStamp == Init /\ [][NextStamp]_vars

\* One pipeline run: either a TransactionWrapper is created, stamps its
\* transactions and then sends and confirms, or a SingleTransactionWrapper
\* sends
NextPipeline ==
    \/ /\ swPc = "idle"
       /\ \E transactions \in TxLists : \E signer \in {None, "S"} :
            \E connectionConfig \in OptionalCommitment :
              Create(transactions, signer, connectionConfig)
    \/ \E feePayer \in {None, "O"} : AddBlockhashAndFeePayer(feePayer)
    \/ \E ok \in BOOLEAN : StGetLatestBlockhashSettles(ok)
    \/ /\ stResult.kind = "returned"
       /\ \E s \in Scripts(1) : \E commitment \in OptionalCommitment :
            SendAndConfirm(1, s, commitment)
    \/ SendTxSettles
    \/ GetLatestBlockhashSettles
    \/ ConfirmTransactionSettles
    \/ /\ stPc = "idle"
       /\ \E args \in SwArgs : SwSend(args)
    \/ \E ok \in BOOLEAN : SwGetLatestBlockhashSettles(ok)
    \/ \E outcome \in WalletOutcomes : SwSignTransactionSettles(outcome)
    \/ \E t \in Conns : \E ok \in BOOLEAN : SwSendTransactionSettles(t, ok)
    \/ SwRaceSettles
    \/ \E check \in swChecks : \E ok \in BOOLEAN : SwConfirmTransactionSettles(check, ok)

SpecPipeline == Init /\ [][NextPipeline]_vars

(***************************************************************************)
(* Claims about TransactionWrapper.sendAndConfirm (checked under SpecTx)   *)
(***************************************************************************)

\* C1: a confirmation result with a non-null err is terminal.  Whenever the
\* attempt r that the ledger rejects has been made and has settled, the call
\* is over on that attempt: it raised the rejection, no send was issued after
\* attempt r, and the only warnings logged are those of the r - 1 earlier
\* attempts (none for the rejection), for every maximumRetries >= 1 and r.
C1_RejectionIsTerminal ==
    \A r \in 1..Len(script) :
        (script[r].kind = "rejected" /\ sendCalls >= r /\ (sendCalls > r \/ txPc = "done"))
        => /\ sendCalls = r
           /\ confirmCalls <= r
           /\ txPc = "done"
           /\ txResult.kind = "thrown"
           /\ txResult.msg = RejectionMessage(script[r].err)
           /\ warnings = r - 1
           /\ tries = r - 1

\* a rejection on the second attempt, after one retried transport failure
C1_Witness ==
    /\ txPc = "done"
    /\ Len(script) >= 2
    /\ sendCalls = 2
    /\ script[2].kind = "rejected"
    /\ txResult.kind = "thrown"
    /\ warnings = 1

\* C2: for every k < maximumRetries, a run whose first k attempts raise a
\* transport error and whose (k+1)-th attempt is confirmed without error
\* returns the signature of that attempt and logs exactly k warnings.
C2_RetriesThenConfirmed ==
    \A k \in 0..(Len(script) - 1) :
        ( /\ txPc = "done"
          /\ k < maximumRetries
          /\ \A i \in 1..k : IsTransport(script[i])
          /\ script[k + 1].kind = "confirmed" )
        => /\ txResult.kind = "returned"
           /\ warnings = k
           /\ txResult.sig = k + 1
           /\ txResult.sig \in confirmedSigs

\* C3: when every attempt fails with a transport error the call gives up
\* exactly when the failed attempts reach maximumRetries, raising the
\* exhaustion error that carries that count; and no signature is returned
\* that the ledger did not confirm.
C3_ExhaustedAfterMaximumRetries ==
    /\ (txPc = "done" /\ \A i \in 1..Len(script) : IsTransport(script[i]))
         => /\ txResult.kind = "thrown"
            /\ txResult.msg = ExhaustedMessage(maximumRetries)
            /\ tries = maximumRetries
            /\ sendCalls = maximumRetries
    /\ (txResult.kind = "returned" => txResult.sig \in confirmedSigs)

\* String.prototype.includes for a fragment sequence: part occurs in msg
Carries(msg, part) ==
    \E i \in 1..(Len(msg) - Len(part) + 1) : SubSeq(msg, i, i + Len(part) - 1) = part

\* the loop was left because the failed attempts reached maximumRetries
Exhausted ==
    /\ txPc = "done"
    /\ txResult.kind = "thrown"
    /\ maximumRetries > 0
    /\ tries = maximumRetries

\* C32: the error raised when the retries are exhausted carries the number
\* of attempts and the message of the last transport error.
C32_ExhaustionBundlesLastError ==
    Exhausted
    => /\ Includes(txResult.msg, ToString(tries))
       /\ Carries(txResult.msg, script[sendCalls].msg)

\* C37: sendAndConfirm never issues more than maximumRetries sends, issues
\* none when maximumRetries <= 0 (and then raises), ends by returning a
\* signature or by raising, and, every awaited call settling, always ends.
C37_AlwaysTerminates ==
    /\ [](sendCalls <= maximumRetries)
    /\ [](txPc = "done" => txResult.kind \in {"returned", "thrown"})
    /\ []((txPc = "done" /\ maximumRetries <= 0) => (sendCalls = 0 /\ txResult.kind = "thrown"))
    /\ (txPc # "idle") ~> (txPc = "done")

\* a run that used every attempt it was allowed
C37_Witness ==
    /\ txPc = "done"
    /\ maximumRetries = MaxRetries
    /\ sendCalls = MaxRetries
    /\ tries = MaxRetries
    /\ txResult.kind = "thrown"

\* C38: a call that raises while attempts remain was aborted by a
\* confirmation result with a non-null err: an error raised by the transport
\* in send or in confirm is retried, whatever its message.
C38_OnlyPayloadAborts ==
    (txPc = "done" /\ txResult.kind = "thrown" /\ tries < maximumRetries)
    => script[sendCalls].kind = "rejected"

(***************************************************************************)
(* Claims about ConnectionManager                                          *)
(***************************************************************************)

\* the endpoints the rotations of the current run returned, in order
RunEndpoints == [i \in 1..Len(rrRun.picks) |-> config.endpoints[rrRun.picks[i]]]

\* C4 as stated: under round-robin over [A, B, C], the first four reselecting
\* calls after initialization return A, B, C, A in that order.
C4_FourCallsReturnABCA ==
    ( /\ config.mode = "round-robin"
      /\ config.endpoints = <<"A", "B", "C">>
      /\ rrRun.start = "A"
      /\ Len(rrRun.picks) = 4 )
    => RunEndpoints = <<"A", "B", "C", "A">>

\* C4 as amended: initialization binds A, and the i-th reselecting call after
\* it returns (and binds) the endpoint i places further round the list:
\* B, C, A, B for the first four.
C4_FourCallsReturnBCAB ==
    ( /\ config.mode = "round-robin"
      /\ config.endpoints = <<"A", "B", "C">>
      /\ rrRun.start = "A" )
    => /\ \A i \in 1..Len(rrRun.picks) : RunEndpoints[i] = config.endpoints[(i % 3) + 1]
       /\ Len(rrRun.picks) = 0 => connection = "A"
       /\ Len(rrRun.picks) > 0 => connection = RunEndpoints[Len(rrRun.picks)]
       /\ Len(rrRun.picks) >= 4 => SubSeq(RunEndpoints, 1, 4) = <<"B", "C", "A", "B">>

C4_Witness ==
    /\ config.mode = "round-robin"
    /\ config.endpoints = <<"A", "B", "C">>
    /\ rrRun.start = "A"
    /\ Len(rrRun.picks) = 4
    /\ ret.step = "connSync"
    /\ ret.endpoint = "B"

\* C5: round-robin is cyclic and fair.  In a run of N consecutive rotations
\* that starts from an endpoint of the M-element list, every list element is
\* selected floor(N/M) or ceil(N/M) times, and the M-th rotation binds the
\* endpoint the run started from.
C5_RoundRobinCyclicAndFair ==
    LET M == Len(config.endpoints)
        N == Len(rrRun.picks)
        Times(i) == Cardinality({j \in 1..N : rrRun.picks[j] = i})
    IN ( /\ config.mode = "round-robin"
         /\ \E i \in 1..M : config.endpoints[i] = rrRun.start )
       => /\ \A i \in 1..M : Times(i) \in {N \div M, (N + M - 1) \div M}
          /\ N >= M => RunEndpoints[M] = rrRun.start

\* C6: a getInstance call made once an instance exists, whatever values it is
\* given, returns that instance, issues no probe round, and leaves the stored
\* configuration, the policy, the bound endpoint and the ranked pointers as
\* they were.
C6_GetInstanceIdempotent ==
    [][ (instance # 0 /\ ret'.step = "getInstance")
        => /\ ret'.settled /\ ret'.err = None /\ ~ret'.probed
           /\ ret'.inst = instance
           /\ UNCHANGED <<objectVars, pending>> ]_vars

\* an instance exists and the call just made passed another policy than the stored one
C6_Witness ==
    /\ instance # 0
    /\ ret.step = "getInstance"
    /\ ret.inst = instance
    /\ ret.mode # config.mode
    /\ connection # None

\* C7: connSync and conn with changeConn = false issue no probe round, return
\* the connection currently held, and leave the bound endpoint and the stored
\* summary unchanged, under every policy.
C7_NoReselectNoProbe ==
    [][ (ret'.step \in {"connSync", "conn"} /\ ret'.changeConn = FALSE)
        => /\ ret'.settled /\ ret'.err = None /\ ~ret'.probed
           /\ ret'.endpoint = connection
           /\ UNCHANGED <<objectVars, pending>> ]_vars

\* the async conn was called with changeConn = false under a ranked policy
C7_Witness ==
    /\ ret.step = "conn"
    /\ ret.changeConn = FALSE
    /\ config.mode \in RankedModes
    /\ ret.endpoint = connection
    /\ connection # None

ReachableIn(summary) == {i \in 1..Len(summary) : summary[i].isReachable}

\* e is a reachable endpoint of the summary whose metric is extremal
\* (sign = 1: minimal, sign = -1: maximal) among the reachable ones
Extremal(e, summary, field, sign) ==
    \E i \in ReachableIn(summary) :
        /\ summary[i].endpoint = e
        /\ \A j \in ReachableIn(summary) : sign * summary[i][field] <= sign * summary[j][field]

Selected(step) == ret.step = step /\ ret.settled /\ ret.err = None

\* C8: under 'fastest', initialization and every conn() that re-probes bind
\* the manager to (and return) a reachable endpoint of minimal latency in the
\* probe round just taken.
C8_FastestBound ==
    (config.mode = "fastest" /\ (Selected("getInstance.resume") \/ Selected("conn.resume")))
    => /\ ret.endpoint = connection
       /\ Extremal(connection, rpcSummary, "speedMs", 1)

\* C9: under 'highest-slot', initialization and every conn() that re-probes
\* bind the manager to a reachable endpoint of maximal currentSlot in the
\* probe round just taken.
C9_HighestSlotBound ==
    (config.mode = "highest-slot" /\ (Selected("getInstance.resume") \/ Selected("conn.resume")))
    => /\ ret.endpoint = connection
       /\ Extremal(connection, rpcSummary, "currentSlot", -1)

\* C10: under 'latest-valid-block-height', a conn() that re-probes returns
\* and binds the reachable endpoint of maximal lastValidBlockHeight in the
\* summary it has just stored.
C10_FreshestBound ==
    (config.mode = "latest-valid-block-height" /\ Selected("conn.resume"))
    => /\ ret.endpoint = connection
       /\ Extremal(connection, rpcSummary, "lastValidBlockHeight", -1)

\* the policies that require an endpoint list
ListModes == {"first", "last", "round-robin", "random"}

HasList(values) == values.endpointsGiven /\ Len(values.endpoints) > 0

\* the initialization that the step resumes, if any
Resumed(p) == pending[p].kind = "getInstance" /\ pending'[p].kind = "idle"

\* C11: under 'last' (resp. 'first') with a non-empty endpoint list of which
\* an endpoint is reachable, initialization succeeds and binds the last
\* (resp. first) element of the list.
C11_FirstLastBound ==
    [][ \A p \in Procs :
          ( /\ Resumed(p)
            /\ pending[p].values.mode \in {"first", "last"}
            /\ HasList(pending[p].values)
            /\ ret'.step = "getInstance.resume"
            /\ ret'.err # "No reachable endpoints" )
          => /\ ret'.err = None
             /\ instance' # 0
             /\ connection' = IF pending[p].values.mode = "first"
                                THEN pending[p].values.endpoints[1]
                                ELSE pending[p].values.endpoints[Len(pending[p].values.endpoints)] ]_vars

\* C12: an initialization under a policy that requires an endpoint list,
\* given an empty or absent list, fails before a probe round is issued (no
\* such call is ever suspended in a probe round), and no instance is ever
\* built from such values.
C12_FailsBeforeProbe ==
    /\ \A p \in Procs :
         (pending[p].kind = "getInstance" /\ pending[p].values.mode \in ListModes)
         => HasList(pending[p].values)
    /\ (instance # 0 /\ config.mode \in ListModes) => HasList(config)

\* C13: a conn() re-probe under a ranked policy that finds no reachable
\* endpoint raises, and leaves bound the endpoint held when the call was
\* made; a connSync({changeConn: false}) that follows returns that endpoint.
C13_FailedReprobeKeepsEndpoint ==
    [][ /\ (ret'.step = "conn.resume" /\ ret'.err = "All endpoints unreachable" /\ ret' # ret)
           => /\ connection' = connection
              /\ connection' # None
              /\ \A p \in Procs :
                   (pending[p].kind = "conn" /\ pending'[p].kind = "idle")
                   => connection' = pending[p].conn
        /\ ( /\ ret.step = "conn.resume" /\ ret.err = "All endpoints unreachable"
             /\ ret'.step = "connSync" /\ ret'.changeConn = FALSE )
           => ret'.endpoint = connection /\ connection' = connection ]_vars

C13_Witness ==
    /\ ret.step = "conn.resume"
    /\ ret.err = "All endpoints unreachable"
    /\ config.mode \in RankedModes
    /\ \A i \in 1..Len(rpcSummary) : ~rpcSummary[i].isReachable
    /\ connection \in {"A", "B"}

\* the endpoints the stored configuration names, and the network default
KnownEndpoints ==
    {config.endpoints[i] : i \in 1..Len(config.endpoints)}
    \cup ({config.endpoint} \ {None})
    \cup {GetDefaultEndpoint(config.network)}

\* C14: once initialized, after any sequence of connSync/conn calls,
\* successful or failing, the manager holds one bound endpoint: never none.
C14_AlwaysBound ==
    instance # 0 => (connection # None /\ connection \in KnownEndpoints)

\* a call has just failed on an initialized manager
C14_Witness ==
    /\ instance # 0
    /\ ret.step \in {"connSync", "conn", "conn.resume"}
    /\ ret.err # None
    /\ connection # None

\* C15: connSync/conn with airdrop = true return a connection to the
\* network's default endpoint, under every policy and for every value of
\* changeConn.
C15_AirdropReturnsDefault ==
    (ret.step \in {"connSync", "conn"} /\ ret.airdrop /\ ret.settled /\ ret.err = None)
    => ret.endpoint = GetDefaultEndpoint(config.network)

\* C16: a call with airdrop = true leaves the bound endpoint unchanged, and
\* under 'single' every call without airdrop returns the endpoint resolved
\* at initialization.
C16_AirdropLeavesBinding ==
    [][ /\ (ret'.step \in {"connSync", "conn"} /\ ret'.airdrop /\ ret' # ret)
           => connection' = connection
        /\ ( /\ config.mode = "single" /\ instance # 0
             /\ ret'.step \in {"connSync", "conn"} /\ ~ret'.airdrop /\ ret' # ret )
           => ret'.endpoint = ConstructorSelect(config, rpcSummary, 0).endpoint ]_vars

\* the three numeric fields of a record are present together or absent together
PopulatedTogether(r) ==
    \/ r.isReachable /\ r.speedMs > 0 /\ r.currentSlot > 0 /\ r.lastValidBlockHeight > 0
    \/ ~r.isReachable /\ r.speedMs = 0 /\ r.currentSlot = 0 /\ r.lastValidBlockHeight = 0

\* C27: a probe round over a non-empty list never raises: the summary a
\* conn() stores holds one record per probed endpoint, in order; a conn()
\* that resumes fails only by its own 'All endpoints unreachable'; a record
\* is reachable with latency, slot and block height all present, or
\* unreachable with all three absent.
C27_ProbeNeverRaises ==
    /\ \A i \in 1..Len(rpcSummary) : PopulatedTogether(rpcSummary[i])
    /\ ret.step = "conn.resume"
       => /\ ret.err \in {None, "All endpoints unreachable"}
          /\ config.endpointsGiven
             => /\ Len(rpcSummary) = Len(config.endpoints)
                /\ \A i \in 1..Len(rpcSummary) : rpcSummary[i].endpoint = config.endpoints[i]

\* a re-probe has stored a summary with a reachable and an unreachable record
C27_Witness ==
    /\ ret.step = "conn.resume"
    /\ Len(rpcSummary) = 2
    /\ \E i, j \in 1..Len(rpcSummary) :
         /\ rpcSummary[i].isReachable /\ rpcSummary[i].speedMs > 0
         /\ ~rpcSummary[j].isReachable /\ rpcSummary[j].speedMs = 0

\* C28: against a probe round in which every endpoint is unreachable, a
\* ranked policy fails (at getInstance with 'No reachable endpoints', at conn
\* with 'All endpoints unreachable'), and an unranked policy does not consult
\* the round: its initialization never fails for want of a reachable endpoint.
C28_UnrankedIgnoreHealth ==
    /\ (ret.step = "conn.resume" /\ EveryUnreachable(rpcSummary))
       => ret.err = "All endpoints unreachable"
    /\ (ret.step = "getInstance.resume" /\ ret.mode \notin RankedModes)
       => ret.err # "No reachable endpoints"

\* the metric a ranked policy ranks by, and the end of the scale it selects
MetricOf(mode) ==
    CASE mode = "fastest" -> [field |-> "speedMs", sign |-> 1]
      [] mode = "highest-slot" -> [field |-> "currentSlot", sign |-> -1]
      [] OTHER -> [field |-> "lastValidBlockHeight", sign |-> -1]

\* the endpoints whose metric is extremal in the stored summary
Tied(mode) ==
    {e \in {"A", "B"} : Extremal(e, rpcSummary, MetricOf(mode).field, MetricOf(mode).sign)}

\* the element of the set that comes first in the configured list
FirstListed(E) ==
    config.endpoints[CHOOSE i \in 1..Len(config.endpoints) :
                        /\ config.endpoints[i] \in E
                        /\ \A j \in 1..(i - 1) : config.endpoints[j] \notin E]

\* C29: whenever a ranked selection (at initialization or at a conn() that
\* re-probes) finds two or more reachable endpoints sharing the extremal
\* metric, it binds the one of them that comes first in the configured list.
C29_StableUnderTies ==
    ( /\ config.mode \in RankedModes
      /\ Selected("getInstance.resume") \/ Selected("conn.resume")
      /\ Cardinality(Tied(config.mode)) >= 2 )
    => connection = FirstListed(Tied(config.mode))

\* C30: getRpcSummary returns _rpcSummary (line 525), the variable rpcSummary,
\* without probing.  If it is the snapshot the most recent selection was based
\* on, the endpoint a connSync({changeConn: true}) has just selected under a
\* ranked policy is the policy's choice in it.
C30_SnapshotOfLastSelection ==
    ( /\ config.mode \in RankedModes
      /\ ret.step = "connSync" /\ ret.changeConn /\ ~ret.airdrop /\ ret.err = None )
    => Extremal(ret.endpoint, rpcSummary, MetricOf(config.mode).field,
                MetricOf(config.mode).sign)

\* C35: when getInstance calls overlap, one probe round is taken, one
\* ConnectionManager is constructed, and every caller receives that one.
C35_SingletonUnderOverlap ==
    /\ Cardinality(SuspendedIn("getInstance")) <= 1
    /\ constructed <= 1
    /\ (ret.step \in {"getInstance", "getInstance.resume"} /\ ret.settled /\ ret.err = None)
       => ret.inst = 1

\* C36: in a run of rotations made by connSync and conn calls in any
\* interleaving, the k-th rotation binds the list position k places after
\* the position the run started from, modulo the length of the list: no
\* two calls rotate from the same index.
C36_RotationsAdvanceByOne ==
    LET M == Len(config.endpoints)
        start == IndexOf(config.endpoints, rrRun.start)
    IN (config.mode = "round-robin" /\ start >= 0)
       => \A k \in 1..Len(rrRun.picks) : rrRun.picks[k] = ((start + k) % M) + 1

\* the pointer connSync reads under the mode
PointerOf(mode, fastest, highestSlot) ==
    IF mode = "fastest" THEN fastest ELSE highestSlot

\* C31: under 'fastest' and 'highest-slot' the endpoint that initialization
\* binds is the one it stores for connSync; no later call changes what is
\* stored; and every connSync({changeConn: true}) without airdrop returns
\* and binds it, whatever conn() has re-probed and bound in between.
C31_ConnSyncKeepsInitialChoice ==
    [][ /\ ( /\ ret'.step = "getInstance.resume" /\ ret' # ret /\ ret'.err = None
             /\ ret'.mode \in {"fastest", "highest-slot"} )
           => connection' = PointerOf(ret'.mode, fastestEndpoint', highestSlotEndpoint')
        /\ (instance # 0 /\ instance' = instance)
           => /\ fastestEndpoint' = fastestEndpoint
              /\ highestSlotEndpoint' = highestSlotEndpoint
        /\ ( /\ ret'.step = "connSync" /\ ret' # ret /\ ret'.changeConn /\ ~ret'.airdrop
             /\ config.mode \in {"fastest", "highest-slot"} )
           => /\ ret'.err = None
              /\ ret'.endpoint = PointerOf(config.mode, fastestEndpoint, highestSlotEndpoint)
              /\ connection' = ret'.endpoint ]_vars

\* connSync has just returned the endpoint of initialization although the
\* last conn() found the other endpoint strictly faster and bound it
C31_Witness ==
    /\ config.mode = "fastest"
    /\ ret.step = "connSync" /\ ret.changeConn /\ ret.err = None
    /\ ret.endpoint = fastestEndpoint
    /\ connection = fastestEndpoint
    /\ Len(rpcSummary) = 2
    /\ \A i \in 1..2 : rpcSummary[i].isReachable
    /\ ~Extremal(ret.endpoint, rpcSummary, "speedMs", 1)

(***************************************************************************)
(* Claims about SingleTransactionWrapper.send and TransactionWrapper.sign  *)
(* (checked under SpecSingle)                                              *)
(***************************************************************************)

SendsIssued == \E t \in Conns : swTasks[t] # None

ConfirmRequested == swArgs.shouldConfirm /\ Truthy(swArgs.shouldConfirmOverride)

\* C17: in a send with shouldRaceSend = true over n connections, each of the
\* n configured endpoints receives exactly one send of the transaction.
C17_EachEndpointOneSend ==
    (Truthy(swArgs.shouldRaceSend) /\ SendsIssued)
    => \A c \in 1..swArgs.n : swSends[c] = 1

\* C18: a raced send of which at least one endpoint's send succeeds does not
\* fail in its submit step and yields a signature, in every completion
\* order of the sends.
C18_FirstSuccessWins ==
    ( /\ Truthy(swArgs.shouldRaceSend)
      /\ swPc = "done"
      /\ \E t \in Conns : swTasks[t] = "resolved" )
    => /\ swResult.msg # "send failed"
       /\ swResult.kind = "returned" => Len(swResult.sigs) > 0

\* C19: a raced send for which confirmation is requested returns only after
\* a confirmation poll has completed on every configured connection, hence
\* on every endpoint that received a send, and no poll it issued is still
\* outstanding.
C19_ConfirmedOnEveryEndpoint ==
    ( /\ Truthy(swArgs.shouldRaceSend)
      /\ ConfirmRequested
      /\ swPc = "done"
      /\ swResult.kind = "returned" )
    => /\ \A c \in 1..swArgs.n : \E check \in swChecked : check[1] = c
       /\ \A c \in Conns : swSends[c] > 0 => \E check \in swChecked : check[1] = c
       /\ swChecked = swChecks

C19_Witness ==
    /\ Truthy(swArgs.shouldRaceSend)
    /\ ConfirmRequested
    /\ swArgs.n = 2
    /\ swPc = "done"
    /\ swResult.kind = "returned"
    /\ \E check \in swChecked : check[1] = 2

\* the steps of send in the order the code has them: lines 105, 128, 149/154,
\* 160/164, 171
SwRank(pc) ==
    CASE pc = "idle" -> 0
      [] pc = "getLatestBlockhash" -> 1
      [] pc = "signTransaction" -> 2
      [] pc \in {"send", "race"} -> 3
      [] pc = "confirm" -> 4
      [] OTHER -> 5

C39_DefaultSendConfirms ==
    ( /\ swPc = "done"
      /\ swResult.kind = "returned"
      /\ swArgs.shouldConfirm
      /\ swArgs.shouldConfirmOverride = "undefined"
      /\ swArgs.shouldRaceSend = "undefined" )
    => /\ Len(swResult.sigs) > 0
       /\ \A i \in 1..Len(swResult.sigs) : <<1, swResult.sigs[i]>> \in swChecked

\* C40: once a raced send has returned, the list it returned (line 171
\* returns the array signatures itself, which the callbacks of line 151
\* push to) does not change.
C40_ReturnedListIsFinal ==
    [][ ( /\ swPc = "done"
          /\ swResult.kind = "returned"
          /\ Truthy(swArgs.shouldRaceSend) )
        => swSignatures' = swSignatures ]_vars

\* C20: when the wallet yields undefined, TransactionWrapper.sign does not
\* return undefined as its signed result, and in SingleTransactionWrapper.send
\* no send is issued for the undefined transaction.
C20_UndefinedIsSigningFailure ==
    /\ signState.kind = "returned" => signState.value # "undefined"
    /\ swTransaction.type = "undefined"
       => (swResult.kind = "thrown" /\ \A c \in Conns : swSends[c] = 0)

(***************************************************************************)
(* Claims about TransactionWrapper.addBlockhashAndFeePayer (checked under  *)
(* SpecStamp)                                                              *)
(***************************************************************************)

\* C21: a stamp that succeeds leaves every wrapped transaction with the
\* fetched blockhash and with the fee payer given to the call, else the one
\* named at creation; the stamp fails with 'Fee payer must be defined' only
\* when neither was given.
C21_StampSetsBlockhashAndFeePayer ==
    stPc = "done"
    => /\ stResult.kind = "returned"
          => \A i \in 1..Len(stTransactions) :
               /\ stTransactions[i].recentBlockhash = "H"
               /\ stTransactions[i].feePayer = Or(stOverride, stSigner)
       /\ stResult.msg = "Fee payer must be defined"
          => (stOverride = None /\ stSigner = None)

\* a transaction without instructions, or one for which no fee payer can be
\* resolved: none of its own, none given to the call, none named at creation
Malformed ==
    \E i \in 1..Len(stCreated) :
        \/ stCreated[i].instructions = 0
        \/ stCreated[i].feePayer = None /\ stOverride = None /\ stSigner = None

\* C22: a stamp of a malformed transaction is rejected before a network call
\* is made and before a field of a transaction is modified.
C22_MalformedRejectedFirst ==
    (stPc \in {"getLatestBlockhash", "done"} /\ Malformed)
    => /\ stPc = "done"
       /\ stResult.kind = "thrown"
       /\ stNetworkCalls = 0
       /\ stTransactions = stCreated

(***************************************************************************)
(* Claims about TransactionBuilder and TransactionHelper (checked under    *)
(* SpecBuilder)                                                            *)
(***************************************************************************)

Called(op) == bOps' = bOps + 1 /\ bLast'.op = op

\* C23: addComputeBudgetIx puts the two compute-budget instructions in front
\* of the instructions accumulated so far and keeps their order; every other
\* add operation puts its instruction behind them; build returns a
\* transaction holding the list as it stands.
C23_ComputeBudgetPrepended ==
    [][ /\ Called("addComputeBudgetIx")
           => /\ Len(Instructions') = Len(Instructions) + 2
              /\ Instructions'[1].program = "ComputeBudget.setComputeUnitLimit"
              /\ Instructions'[2].program = "ComputeBudget.setComputeUnitPrice"
              /\ SubSeq(Instructions', 3, Len(Instructions')) = Instructions
        /\ (Called("addIx") \/ (bPc = "getAccountInfo" /\ bLast'.accInfo = "null"))
           => /\ Len(Instructions') = Len(Instructions) + 1
              /\ SubSeq(Instructions', 1, Len(Instructions)) = Instructions
        /\ Called("build")
           => /\ built'[Len(built')].instructions = Instructions
              /\ InstructionsOf(arrays', txs', built'[Len(built')].tx) = Instructions ]_vars

\* two transfers, then addComputeBudgetIx, then build
C23_Witness ==
    /\ bLast.op = "build"
    /\ Len(built) = 1
    /\ Len(built[1].instructions) = 4
    /\ built[1].instructions[1].program = "ComputeBudget.setComputeUnitLimit"
    /\ built[1].instructions[2].program = "ComputeBudget.setComputeUnitPrice"
    /\ built[1].instructions[3] = Instruction("System.transfer", 1)
    /\ built[1].instructions[4] = Instruction("System.transfer", 2)

\* C24: the instruction list of a transaction that build returned stays what
\* it was when build returned it, whatever the builder does afterwards.
C24_BuiltIsImmutable ==
    \A k \in 1..Len(built) :
        InstructionsOf(arrays, txs, built[k].tx) = built[k].instructions

\* C25: reset leaves the builder with no instruction and with a transaction
\* object that no earlier build returned, and changes the instruction list
\* of no transaction built before; a build that follows at once returns an
\* empty list on an object distinct from every one returned before; and no
\* later step changes the list of a transaction the builder has let go of.
C25_ResetDiscards ==
    [][ /\ Called("reset")
           => /\ Instructions' = <<>>
              /\ \A k \in 1..Len(built) :
                   /\ built[k].tx # bTransaction'
                   /\ InstructionsOf(arrays', txs', built[k].tx)
                        = InstructionsOf(arrays, txs, built[k].tx)
        /\ (bLast.op = "reset" /\ Called("build"))
           => /\ built'[Len(built')].instructions = <<>>
              /\ \A k \in 1..Len(built) : built[k].tx # built'[Len(built')].tx
        /\ \A k \in 1..Len(built) :
             built[k].tx # bTransaction
             => InstructionsOf(arrays', txs', built[k].tx)
                  = InstructionsOf(arrays, txs, built[k].tx) ]_vars

\* a build with instructions, a reset, and a build at once
C25_Witness ==
    /\ bLast.op = "build"
    /\ bOps = 4
    /\ Len(built) = 2
    /\ built[1].instructions # <<>>
    /\ built[2].instructions = <<>>
    /\ built[1].tx # built[2].tx
    /\ InstructionsOf(arrays, txs, built[1].tx) = built[1].instructions

\* C26: both create-account-if-missing operations produce the account
\* creation instruction exactly when the ledger has no such account:
\* createTokenAccountIx returns it (else null), addCreateTokenAccountIx
\* appends it (else appends nothing).
C26_CreateExactlyWhenMissing ==
    /\ (helper.pc = "done" /\ helper.accInfo # "rejected")
       => (helper.result = "instruction" <=> helper.accInfo = "null")
    /\ (bLast.op = "addCreateTokenAccountIx" /\ bPc = "idle" /\ bLast.accInfo # "rejected")
       => ( ( /\ Instructions # <<>>
              /\ Instructions[Len(Instructions)] = Instruction("AssociatedToken.create", bOps) )
            <=> bLast.accInfo = "null" )

(***************************************************************************)
(* Claims about the commitment level along a pipeline run (checked under   *)
(* SpecPipeline)                                                           *)
(***************************************************************************)

\* C33: in one pipeline run the level the blockhash was fetched at when
\* stamping is the level passed to the confirmation poll, for a
\* TransactionWrapper (addBlockhashAndFeePayer, then sendAndConfirm) and for
\* SingleTransactionWrapper.send.
C33_CommitmentThreaded ==
    /\ (commitments.stamp # None /\ commitments.poll # None)
       => Level(commitments.stamp) = Level(commitments.poll)
    /\ (commitments.swFetch # None /\ commitments.swPoll # None)
       => Level(commitments.swFetch) = Level(commitments.swPoll)

====
